---- MODULE Spec2Model ----
(***************************************************************************)
(* GraphQLTypeMap (graphql/type/typemap.py): the closure of the named      *)
(* types reachable from a list of root types, the interface-implementer    *)
(* index, the interface-conformance check and the lazily populated         *)
(* possible-type cache.                                                    *)
(***************************************************************************)
EXTENDS Integers, Sequences, FiniteSets, TLC

(***************************************************************************)
(* Bounds                                                                  *)
(***************************************************************************)
\* longest list of root types handed to GraphQLTypeMap(types)
MaxRoots == 2

\* longest list of root types of a map that is queried afterwards
MaxQueryRoots == 2

\* callers that query one constructed map concurrently
MaxThreads == 2

\* the longest text handed to the lexer
MaxBody == 3

\* the most pieces a text is put together from
MaxPieces == 3

\* the longest text of number characters
MaxNumber == 5

\* the most definitions a validated document has
MaxDefinitions == 4

(***************************************************************************)
(* Type references: a named type definition d under a stack of List/NonNull*)
(* wrappers (outermost first); d = "None" is None.                           *)
(***************************************************************************)
NoType == [w |-> <<>>, d |-> "None"]

Named(d) == [w |-> <<>>, d |-> d]

GraphQLList(r) == [w |-> <<"List">> \o r.w, d |-> r.d]

GraphQLNonNull(r) == [w |-> <<"NonNull">> \o r.w, d |-> r.d]

\* an unwrapping that loses the wrapped type
of_type_Lost(r) == [w |-> <<>>, d |-> "None"]

\* type_.of_type of a wrapper
of_type(r) == [w |-> Tail(r.w), d |-> r.d]

IsWrapper(r) == r.w # <<>>

GraphQLArgument(n, t) == [name |-> n, type |-> t, isArgument |-> TRUE]

\* an entry of field.args that is no GraphQLArgument instance
NotAnArgument(n, t) == [name |-> n, type |-> t, isArgument |-> FALSE]

GraphQLField(n, t, args) ==
    [name |-> n, type |-> t, args |-> args, isInputObjectField |-> FALSE]

GraphQLInputObjectField(n, t) ==
    [name |-> n, type |-> t, args |-> <<>>, isInputObjectField |-> TRUE]

TypeDef(k, n, fields, interfaces, members) ==
    [kind |-> k, name |-> n, fields |-> fields, interfaces |-> interfaces,
     types |-> members]

(***************************************************************************)
(* The type definitions the roots are drawn from.  Each key of Defs is one *)
(* Python object; two objects may carry the same name.                     *)
(***************************************************************************)

Str == Named("String")

Defs ==
    \* scalar String
       ("String" :>
        TypeDef("Scalar", "String", <<>>, <<>>, <<>>))
    \* interface I { f(x: String): I }
    @@ ("I" :>
        TypeDef("Interface", "I",
        <<GraphQLField("f", Named("I"), <<GraphQLArgument("x", Str)>>)>>, <<>>, <<>>))
    \* type A implements I { f(x: String, y: [String!]): A!  b: [B!] }
    @@ ("A" :>
        TypeDef("Object", "A",
        <<GraphQLField("f", GraphQLNonNull(Named("A")),
              <<GraphQLArgument("x", Str),
                GraphQLArgument("y", GraphQLList(GraphQLNonNull(Str)))>>),
          GraphQLField("b", GraphQLList(GraphQLNonNull(Named("B"))), <<>>)>>,
        <<"I">>, <<>>))
    \* type B { a: A!  u: U }
    @@ ("B" :>
        TypeDef("Object", "B",
        <<GraphQLField("a", GraphQLNonNull(Named("A")), <<>>),
          GraphQLField("u", Named("U"), <<>>)>>, <<>>, <<>>))
    \* union U = A | B
    @@ ("U" :>
        TypeDef("Union", "U", <<>>, <<>>, <<"A", "B">>))
    \* a second union object that is also named U: union U = B
    @@ ("U2" :>
        TypeDef("Union", "U", <<>>, <<>>, <<"B">>))
    \* input In { s: String!  self: In }
    @@ ("In" :>
        TypeDef("InputObject", "In",
        <<GraphQLInputObjectField("s", GraphQLNonNull(Str)),
          GraphQLInputObjectField("self", Named("In"))>>, <<>>, <<>>))
    \* type Q { q(in: In, e: En): U  i: I }
    @@ ("Q" :>
        TypeDef("Object", "Q",
        <<GraphQLField("q", Named("U"),
              <<GraphQLArgument("in", Named("In")),
                GraphQLArgument("e", Named("En"))>>),
          GraphQLField("i", Named("I"), <<>>)>>, <<>>, <<>>))
    \* type C implements I { g: String }            (omits f)
    @@ ("C" :>
        TypeDef("Object", "C", <<GraphQLField("g", Str, <<>>)>>, <<"I">>, <<>>))
    \* type D implements I { f(x: String!): I }    (x wrapped differently)
    @@ ("D" :>
        TypeDef("Object", "D",
        <<GraphQLField("f", Named("I"),
              <<GraphQLArgument("x", GraphQLNonNull(Str))>>)>>, <<"I">>, <<>>))
    \* type E implements I { f(x: String, z: String!): I }  (required extra)
    @@ ("E" :>
        TypeDef("Object", "E",
        <<GraphQLField("f", Named("I"),
              <<GraphQLArgument("x", Str),
                GraphQLArgument("z", GraphQLNonNull(Str))>>)>>, <<"I">>, <<>>))
    \* type F implements I { f(x: String): String }  (no subtype of I)
    @@ ("F" :>
        TypeDef("Object", "F",
        <<GraphQLField("f", Str, <<GraphQLArgument("x", Str)>>)>>,
        <<"I">>, <<>>))
    \* type G implements I { f: I }                (omits argument x)
    @@ ("G" :>
        TypeDef("Object", "G", <<GraphQLField("f", Named("I"), <<>>)>>, <<"I">>, <<>>))
    \* input BadIn { o: [A] }                      (no input type)
    @@ ("BadIn" :>
        TypeDef("InputObject", "BadIn",
        <<GraphQLInputObjectField("o", GraphQLList(Named("A")))>>, <<>>, <<>>))
    \* input BadIn2 whose field is a GraphQLField
    @@ ("BadIn2" :>
        TypeDef("InputObject", "BadIn2", <<GraphQLField("s", Str, <<>>)>>, <<>>, <<>>))
    \* type BadOut { i: In }                       (no output type)
    @@ ("BadOut" :>
        TypeDef("Object", "BadOut", <<GraphQLField("i", Named("In"), <<>>)>>,
        <<>>, <<>>))
    \* type BadArg { h(a: A): String }             (argument of no input type)
    @@ ("BadArg" :>
        TypeDef("Object", "BadArg",
        <<GraphQLField("h", Str, <<GraphQLArgument("a", Named("A"))>>)>>,
        <<>>, <<>>))
    \* type BadArg2 { h(a: ...) } whose argument is no GraphQLArgument
    @@ ("BadArg2" :>
        TypeDef("Object", "BadArg2",
        <<GraphQLField("h", Str, <<NotAnArgument("a", Str)>>)>>, <<>>, <<>>))
    \* interface J { g: String }                   (never implemented)
    @@ ("J" :>
        TypeDef("Interface", "J", <<GraphQLField("g", Str, <<>>)>>, <<>>, <<>>))
    \* a second object type that is also named A
    @@ ("A2" :>
        TypeDef("Object", "A", <<GraphQLField("g", Str, <<>>)>>, <<>>, <<>>))
    \* union V with no member
    @@ ("V" :>
        TypeDef("Union", "V", <<>>, <<>>, <<>>))
    \* enum En
    @@ ("En" :>
        TypeDef("Enum", "En", <<>>, <<>>, <<>>))
    \* interface K { j: J }
    @@ ("K" :>
        TypeDef("Interface", "K", <<GraphQLField("j", Named("J"), <<>>)>>, <<>>, <<>>))
    \* type H implements K { j: B }                (J has no possible type)
    @@ ("H" :>
        TypeDef("Object", "H", <<GraphQLField("j", Named("B"), <<>>)>>, <<"K">>, <<>>))
    \* type L implements I { f(x: String): I }
    @@ ("L" :>
        TypeDef("Object", "L",
        <<GraphQLField("f", Named("I"), <<GraphQLArgument("x", Str)>>)>>,
        <<"I">>, <<>>))

DefIds == DOMAIN Defs

Names == {Defs[d].name : d \in DefIds}

isinstance(d, kinds) == d \in DefIds /\ Defs[d].kind \in kinds


(***************************************************************************)
(* Predicates of graphql/type/definition.py and                            *)
(* graphql/utils/type_comparators.py.                                      *)
(***************************************************************************)
InputKinds == {"Scalar", "Enum", "InputObject"}

OutputKinds == {"Scalar", "Object", "Interface", "Union", "Enum"}

AbstractKinds == {"Interface", "Union"}

\* scalars, enums, input objects, and lists/non-null thereof
is_input_type(r) == isinstance(r.d, InputKinds)

\* scalars, objects, interfaces, unions, enums, and lists/non-null thereof
is_output_type(r) == isinstance(r.d, OutputKinds)

RECURSIVE is_equal_type(_, _)
\* the same named type under the same wrappers
is_equal_type(a, b) ==
    IF ~IsWrapper(a) /\ ~IsWrapper(b) THEN a.d = b.d
    ELSE IF IsWrapper(a) /\ IsWrapper(b) /\ Head(a.w) = Head(b.w)
         THEN is_equal_type(of_type(a), of_type(b))
         ELSE FALSE

(***************************************************************************)
(* Ordered dictionaries: a sequence of [key, val] entries in insertion     *)
(* order.                                                                  *)
(***************************************************************************)
Has(m, k) == \E i \in DOMAIN m : m[i].key = k

Get(m, k) == m[CHOOSE i \in DOMAIN m : m[i].key = k].val

Put(m, k, v) ==
    IF Has(m, k)
    THEN [i \in DOMAIN m |-> IF m[i].key = k THEN [key |-> k, val |-> v] ELSE m[i]]
    ELSE Append(m, [key |-> k, val |-> v])

Keys(m) == {m[i].key : i \in DOMAIN m}

Values(m) == [i \in DOMAIN m |-> m[i].val]

\* the names of a list of type definitions
NamesOf(ts) == {Defs[ts[k]].name : k \in DOMAIN ts}

\* dict.update(other) on OrderedDicts: present keys keep their place and take
\* the new value, new keys are appended in the order of other
Update(m, other) ==
    [i \in DOMAIN m |->
        IF Has(other, m[i].key) THEN [key |-> m[i].key, val |-> Get(other, m[i].key)]
        ELSE m[i]]
    \o SelectSeq(other, LAMBDA e : ~Has(m, e.key))

(***************************************************************************)
(* Errors: the AssertionError a failed assert raises.                      *)
(***************************************************************************)
NoError == [kind |-> "none", type |-> "None", field |-> "", arg |-> "", other |-> "None"]

Error(k, t, f, a, o) == [kind |-> k, type |-> t, field |-> f, arg |-> a, other |-> o]

\* the first error of a sequence of check results, NoError when all passed
RECURSIVE FirstError(_)
FirstError(es) ==
    IF es = <<>> THEN NoError
    ELSE IF Head(es) # NoError THEN Head(es) ELSE FirstError(Tail(es))

(***************************************************************************)
(* get_possible_types and is_possible_type as functions of the instance's  *)
(* _implementations and _possible_type_map.                                *)
(***************************************************************************)
get_possible_types(impl, abstract_type) ==
    IF isinstance(abstract_type, {"Union"}) THEN Defs[abstract_type].types
    ELSE IF Defs[abstract_type].name \notin DOMAIN impl THEN <<>>
    ELSE impl[Defs[abstract_type].name]

\* a population that replaces the entry the cache already holds
PopulateCache_Overwrite(cache, name, possible_types) ==
    (name :> NamesOf(possible_types)) @@ cache

\* lines 71-74: the cache entry of name after the lazy population
PopulateCache(cache, name, possible_types) ==
    IF name \notin DOMAIN cache
    THEN (name :> NamesOf(possible_types)) @@ cache
    ELSE cache

\* is_possible_type that answers a cache miss from the list of type objects
\* and a cache hit from the set of names
is_possible_type_ObjectsOnMiss(impl, cache, abstract_type, possible_type) ==
    LET possible_types == get_possible_types(impl, abstract_type)
        name == Defs[abstract_type].name
        cache1 == PopulateCache(cache, name, possible_types)
    IN  IF possible_types = <<>>
        THEN [raised |-> TRUE, result |-> FALSE, cache |-> cache]
        ELSE [raised |-> FALSE,
              result |-> IF name \notin DOMAIN cache
                         THEN \E k \in DOMAIN possible_types : possible_types[k] = possible_type
                         ELSE Defs[possible_type].name \in cache1[name],
              cache |-> cache1]

\* is_possible_type without the assertion of lines 65-69: an empty list of
\* possible types is cached and answered with false
is_possible_type_FalseOnEmpty(impl, cache, abstract_type, possible_type) ==
    LET possible_types == get_possible_types(impl, abstract_type)
        name == Defs[abstract_type].name
        cache1 == PopulateCache(cache, name, possible_types)
    IN  [raised |-> FALSE,
         result |-> Defs[possible_type].name \in cache1[name],
         cache |-> cache1]

\* the whole call: [raised, result, cache]
is_possible_type(impl, cache, abstract_type, possible_type) ==
    LET possible_types == get_possible_types(impl, abstract_type)
        name == Defs[abstract_type].name
        cache1 == PopulateCache(cache, name, possible_types)
    IN  IF possible_types = <<>>
        THEN [raised |-> TRUE, result |-> FALSE, cache |-> cache]
        ELSE [raised |-> FALSE,
              result |-> Defs[possible_type].name \in cache1[name],
              cache |-> cache1]

RECURSIVE is_type_sub_type_of(_, _, _, _)
\* [raised, result, cache]: schema.is_possible_type decides whether an object
\* type is a possible type of an abstract type
is_type_sub_type_of(impl, cache, maybe_subtype, super_type) ==
    LET yes == [raised |-> FALSE, result |-> TRUE, cache |-> cache]
        no  == [raised |-> FALSE, result |-> FALSE, cache |-> cache]
    IN
    IF maybe_subtype = super_type THEN yes
    ELSE IF IsWrapper(super_type) /\ Head(super_type.w) = "NonNull"
    THEN IF IsWrapper(maybe_subtype) /\ Head(maybe_subtype.w) = "NonNull"
         THEN is_type_sub_type_of(impl, cache, of_type(maybe_subtype), of_type(super_type))
         ELSE no
    ELSE IF IsWrapper(maybe_subtype) /\ Head(maybe_subtype.w) = "NonNull"
    THEN is_type_sub_type_of(impl, cache, of_type(maybe_subtype), super_type)
    ELSE IF IsWrapper(super_type)
    THEN IF IsWrapper(maybe_subtype)
         THEN is_type_sub_type_of(impl, cache, of_type(maybe_subtype), of_type(super_type))
         ELSE no
    ELSE IF IsWrapper(maybe_subtype) THEN no
    ELSE IF isinstance(super_type.d, AbstractKinds) /\ isinstance(maybe_subtype.d, {"Object"})
    THEN is_possible_type(impl, cache, super_type.d, maybe_subtype.d)
    ELSE no


(***************************************************************************)
(* State                                                                   *)
(***************************************************************************)
VARIABLES
    types,              \* the argument of GraphQLTypeMap(types)
    pc,                 \* where __init__ is: "reduce", "implementations",
                        \* "conformance", "constructed" or "failed"
    rootIdx,            \* the next element of types that reduce() hands to reducer
    stack,              \* pending reducer work, the innermost call first
    map_,               \* the OrderedDict the reducer fills
    typeMap,            \* self, the entries of the GraphQLTypeMap
    implementations,    \* self._implementations
    possible_type_map,  \* self._possible_type_map
    checks,             \* the (object, interface, field) checks still to run
    err,                \* the AssertionError that ended construction
    expanded,           \* how often line 94 inserted each definition
    ret,                \* the last sequential query and what it returned
    probe,              \* an earlier is_possible_type call, kept to compare later ones with
    tpc,                \* per thread: where its is_possible_type call is
    targ,               \* per thread: the call's arguments and possible_types
    tret,               \* per thread: what its last call returned
    body,               \* Source.body, the characters of the text being lexed
    currentPosition,      \* the Lexer's cursor: where the next scan starts
    token,              \* the token the last next_token call returned
    prev_token,         \* the token returned by the call before that one
    lex_error,          \* the syntax error the last next_token call raised
    document,           \* the definitions of the document being validated
    docIdx,             \* the next definition the visitor enters
    known_fragment_names, \* UniqueFragmentNamesRule.known_fragment_names
    errors              \* what report_error has collected

vars == <<types, pc, rootIdx, stack, map_, typeMap, implementations,
          possible_type_map, checks, err, expanded, ret, probe, tpc, targ, tret,
          body, currentPosition, token, prev_token, lex_error,
          document, docIdx, known_fragment_names, errors>>

buildVars == <<types, pc, rootIdx, stack, map_, typeMap, implementations,
               possible_type_map, checks, err, expanded>>

queryVars == <<ret, probe>>

threadVars == <<tpc, targ, tret>>

lexVars == <<body, currentPosition, token, prev_token, lex_error>>

ruleVars == <<document, docIdx, known_fragment_names, errors>>

Threads == 1..MaxThreads

\* a call record: abstract type, candidate, result ("none", "true", "false",
\* "raised" or "list") and, for get_possible_types, the list returned
NoCall == [a |-> "None", c |-> "None", r |-> "none", l |-> <<>>]

Call(a, c, r, l) == [a |-> a, c |-> c, r |-> r, l |-> l]

Bool(b) == IF b THEN "true" ELSE "false"

EmptyDict == [n \in {} |-> {}]

(***************************************************************************)
(* reducer (lines 78-144) as a stack machine.  A work item is a pending    *)
(* call reducer(map_, ref), the body of the loop over fields for one field *)
(* (lines 111-142) or the body of the loop over its args for one argument  *)
(* (lines 129-140).                                                        *)
(***************************************************************************)
Visit(ref) == [op |-> "type", ref |-> ref, of |-> "None", i |-> 0, j |-> 0]

FieldItem(d, i) == [op |-> "field", ref |-> NoType, of |-> d, i |-> i, j |-> 0]

ArgItem(d, i, j) == [op |-> "arg", ref |-> NoType, of |-> d, i |-> i, j |-> j]

\* AlreadyMapped looking at the most recent entry only
AlreadyMapped_LastOnly(m, d) == m # <<>> /\ m[Len(m)].key = Defs[d].name

\* line 87
AlreadyMapped(m, d) == Has(m, Defs[d].name)

\* SameDefinition comparing the names only
SameDefinition_ByName(m, d) == Defs[Get(m, Defs[d].name)].name = Defs[d].name

\* line 88: the mapped entry is this very definition
SameDefinition(m, d) == Get(m, Defs[d].name) = d

\* lines 98-100: the member types of a union
UnionCalls(d) ==
    IF isinstance(d, {"Union"})
    THEN [k \in DOMAIN Defs[d].types |-> Visit(Named(Defs[d].types[k]))]
    ELSE <<>>

\* lines 102-104: the interfaces of an object type
InterfaceCalls(d) ==
    IF isinstance(d, {"Object"})
    THEN [k \in DOMAIN Defs[d].interfaces |-> Visit(Named(Defs[d].interfaces[k]))]
    ELSE <<>>

\* lines 106-111: one loop body per field
FieldCalls(d) ==
    IF isinstance(d, {"Object", "Interface", "InputObject"})
    THEN [i \in DOMAIN Defs[d].fields |-> FieldItem(d, i)]
    ELSE <<>>

\* lines 96-142: what expanding definition d calls, in order
Expand(d) == UnionCalls(d) \o InterfaceCalls(d) \o FieldCalls(d)

\* FieldCheck without the output-type assertion of lines 124-128
FieldCheck_NoOutputCheck(d, i) ==
    LET field == Defs[d].fields[i] IN
    IF isinstance(d, {"InputObject"})
    THEN IF ~field.isInputObjectField
         THEN Error("NotInputObjectField", d, field.name, "", "None")
         ELSE IF ~is_input_type(field.type)
         THEN Error("FieldNotInputType", d, field.name, "", field.type.d)
         ELSE NoError
    ELSE NoError

\* lines 112-128: the assertions on field i of d
FieldCheck(d, i) ==
    LET field == Defs[d].fields[i] IN
    IF isinstance(d, {"InputObject"})
    THEN IF ~field.isInputObjectField
         THEN Error("NotInputObjectField", d, field.name, "", "None")
         ELSE IF ~is_input_type(field.type)
         THEN Error("FieldNotInputType", d, field.name, "", field.type.d)
         ELSE NoError
    ELSE IF ~is_output_type(field.type)
         THEN Error("FieldNotOutputType", d, field.name, "", field.type.d)
         ELSE NoError

\* FieldBody without the recursion into the argument types (line 140)
FieldBody_SkipArgs(d, i) == <<Visit(Defs[d].fields[i].type)>>

\* lines 129-142: what the loop body of field i calls after its assertions
FieldBody(d, i) ==
    LET field == Defs[d].fields[i] IN
    (IF isinstance(d, {"InputObject"}) THEN <<>>
     ELSE [j \in DOMAIN field.args |-> ArgItem(d, i, j)])
    \o <<Visit(field.type)>>

\* lines 130-139: the assertions on argument j of field i of d
ArgCheck(d, i, j) ==
    LET field == Defs[d].fields[i]
        arg == field.args[j]
    IN  IF ~arg.isArgument
        THEN Error("NotArgument", d, field.name, arg.name, "None")
        ELSE IF ~is_input_type(arg.type)
        THEN Error("ArgNotInputType", d, field.name, arg.name, arg.type.d)
        ELSE NoError

\* a failed check that is recorded while construction goes on
Fail_KeepGoing(e) ==
    /\ err' = e
    /\ pc' = pc
    /\ stack' = IF stack = <<>> THEN <<>> ELSE Tail(stack)

\* the assertion fails: the AssertionError leaves __init__
Fail(e) ==
    /\ pc' = "failed"
    /\ err' = e
    /\ stack' = <<>>

\* reduce(self.reducer, types, OrderedDict()) hands the next root to reducer
reduce_next ==
    /\ pc = "reduce"
    /\ stack = <<>>
    /\ rootIdx <= Len(types)
    /\ stack' = <<Visit(types[rootIdx])>>
    /\ rootIdx' = rootIdx + 1
    /\ UNCHANGED <<types, pc, map_, typeMap, implementations, possible_type_map,
                   checks, err, expanded>>
    /\ UNCHANGED <<queryVars, threadVars>>
    /\ UNCHANGED <<lexVars, ruleVars>>

\* one call reducer(map_, type_), lines 81-104
reducer ==
    /\ pc = "reduce"
    /\ stack # <<>>
    /\ Head(stack).op = "type"
    /\ LET type_ == Head(stack).ref
           rest == Tail(stack)
       IN  IF type_.d = "None"
           THEN \* lines 81-82
                /\ stack' = rest
                /\ UNCHANGED <<pc, map_, err, expanded>>
           ELSE IF IsWrapper(type_)
           THEN \* lines 84-85
                /\ stack' = <<Visit(of_type(type_))>> \o rest
                /\ UNCHANGED <<pc, map_, err, expanded>>
           ELSE IF AlreadyMapped(map_, type_.d)
           THEN \* lines 87-92
                IF SameDefinition(map_, type_.d)
                THEN /\ stack' = rest
                     /\ UNCHANGED <<pc, map_, err, expanded>>
                ELSE /\ Fail(Error("DuplicateName", type_.d, "", "",
                                   Get(map_, Defs[type_.d].name)))
                     /\ UNCHANGED <<map_, expanded>>
           ELSE \* lines 94-111
                /\ map_' = Put(map_, Defs[type_.d].name, type_.d)
                /\ expanded' = [expanded EXCEPT ![type_.d] = @ + 1]
                /\ stack' = Expand(type_.d) \o rest
                /\ UNCHANGED <<pc, err>>
    /\ UNCHANGED <<types, rootIdx, typeMap, implementations, possible_type_map,
                   checks>>
    /\ UNCHANGED <<queryVars, threadVars>>
    /\ UNCHANGED <<lexVars, ruleVars>>

\* one pass of the loop over field_map.items(), lines 111-142
reducer_field ==
    /\ pc = "reduce"
    /\ stack # <<>>
    /\ Head(stack).op = "field"
    /\ LET d == Head(stack).of
           i == Head(stack).i
           e == FieldCheck(d, i)
       IN  IF e # NoError
           THEN Fail(e)
           ELSE /\ stack' = FieldBody(d, i) \o Tail(stack)
                /\ UNCHANGED <<pc, err>>
    /\ UNCHANGED <<types, rootIdx, map_, typeMap, implementations,
                   possible_type_map, checks, expanded>>
    /\ UNCHANGED <<queryVars, threadVars>>
    /\ UNCHANGED <<lexVars, ruleVars>>

\* one pass of the loop over field.args.items(), lines 129-140
reducer_arg ==
    /\ pc = "reduce"
    /\ stack # <<>>
    /\ Head(stack).op = "arg"
    /\ LET d == Head(stack).of
           i == Head(stack).i
           j == Head(stack).j
           e == ArgCheck(d, i, j)
       IN  IF e # NoError
           THEN Fail(e)
           ELSE /\ stack' = <<Visit(Defs[d].fields[i].args[j].type)>> \o Tail(stack)
                /\ UNCHANGED <<pc, err>>
    /\ UNCHANGED <<types, rootIdx, map_, typeMap, implementations,
                   possible_type_map, checks, expanded>>
    /\ UNCHANGED <<queryVars, threadVars>>
    /\ UNCHANGED <<lexVars, ruleVars>>


(***************************************************************************)
(* __init__ after the reduce: lines 31-47.                                 *)
(***************************************************************************)
\* the implementer list with the newest object type in front
AppendImplementation_InFront(impl, name, d) ==
    IF name \in DOMAIN impl
    THEN [impl EXCEPT ![name] = <<d>> \o @]
    ELSE (name :> <<d>>) @@ impl

\* self._implementations[name].append(d) on a defaultdict(list)
AppendImplementation(impl, name, d) ==
    IF name \in DOMAIN impl
    THEN [impl EXCEPT ![name] = Append(@, d)]
    ELSE (name :> <<d>>) @@ impl

RECURSIVE AddInterfaces(_, _, _)
\* lines 40-41 for one object type
AddInterfaces(impl, d, interfaces) ==
    IF interfaces = <<>> THEN impl
    ELSE AddInterfaces(AppendImplementation(impl, Defs[Head(interfaces)].name, d),
                       d, Tail(interfaces))

RECURSIVE BuildImplementations(_, _)
\* lines 38-41 over self.values()
BuildImplementations(impl, values) ==
    IF values = <<>> THEN impl
    ELSE BuildImplementations(
             IF isinstance(Head(values), {"Object"})
             THEN AddInterfaces(impl, Head(values), Defs[Head(values)].interfaces)
             ELSE impl,
             Tail(values))

\* line 157: one item per field of the interface
FieldItemsOf(object, interface) ==
    [f \in DOMAIN Defs[interface].fields |-> [o |-> object, i |-> interface, f |-> f]]

RECURSIVE InterfaceItemsOf(_, _)
\* lines 46-47 for one object type
InterfaceItemsOf(object, interfaces) ==
    IF interfaces = <<>> THEN <<>>
    ELSE FieldItemsOf(object, Head(interfaces)) \o InterfaceItemsOf(object, Tail(interfaces))

RECURSIVE ConformanceItems(_)
\* lines 44-47 over self.values(): every (object, interface, field) in order
ConformanceItems(values) ==
    IF values = <<>> THEN <<>>
    ELSE (IF isinstance(Head(values), {"Object"})
          THEN InterfaceItemsOf(Head(values), Defs[Head(values)].interfaces)
          ELSE <<>>)
         \o ConformanceItems(Tail(values))

\* field_map.get(name) / args.get(name): the index of the entry, 0 for None
IndexOf(entries, name) ==
    IF \E k \in DOMAIN entries : entries[k].name = name
    THEN CHOOSE k \in DOMAIN entries : entries[k].name = name
    ELSE 0

\* InterfaceArgCheck accepting any covariant argument type
InterfaceArgCheck_Covariant(object, interface, interface_field, object_field, k) ==
    LET interface_arg == interface_field.args[k]
        at == IndexOf(object_field.args, interface_arg.name)
    IN  IF at = 0
        THEN Error("MissingArg", interface, interface_field.name, interface_arg.name, object)
        ELSE IF ~is_type_sub_type_of(<<>>, EmptyDict, object_field.args[at].type,
                                     interface_arg.type).result
        THEN Error("ArgType", interface, interface_field.name, interface_arg.name, object)
        ELSE NoError

\* lines 177-195: the interface's argument k against the object's field
InterfaceArgCheck(object, interface, interface_field, object_field, k) ==
    LET interface_arg == interface_field.args[k]
        at == IndexOf(object_field.args, interface_arg.name)
    IN  IF at = 0
        THEN Error("MissingArg", interface, interface_field.name, interface_arg.name, object)
        ELSE IF ~is_equal_type(interface_arg.type, object_field.args[at].type)
        THEN Error("ArgType", interface, interface_field.name, interface_arg.name, object)
        ELSE NoError

\* ExtraArgAllowed without the assertion of line 200
ExtraArgAllowed_Always(object_arg) == TRUE

\* line 200: an argument only the object declares must not be required
ExtraArgAllowed(object_arg) ==
    ~(IsWrapper(object_arg.type) /\ Head(object_arg.type.w) = "NonNull")

\* lines 197-211: the object's argument k against the interface's field
ObjectArgCheck(object, interface, interface_field, object_field, k) ==
    LET object_arg == object_field.args[k] IN
    IF IndexOf(interface_field.args, object_arg.name) = 0 /\ ~ExtraArgAllowed(object_arg)
    THEN Error("RequiredExtraArg", interface, interface_field.name, object_arg.name, object)
    ELSE NoError

\* lines 177-211 for one field: the first failing assertion
ArgsCheck(object, interface, interface_field, object_field) ==
    FirstError(
        [k \in DOMAIN interface_field.args |->
            InterfaceArgCheck(object, interface, interface_field, object_field, k)]
        \o
        [k \in DOMAIN object_field.args |->
            ObjectArgCheck(object, interface, interface_field, object_field, k)])

\* assert_object_implements_interface passing over a field the object lacks
assert_object_implements_interface_SkipMissing(impl, cache, object, interface, f) ==
    LET interface_field == Defs[interface].fields[f]
        at == IndexOf(Defs[object].fields, interface_field.name)
        object_field == Defs[object].fields[at]
        sub == is_type_sub_type_of(impl, cache, object_field.type, interface_field.type)
    IN  IF at = 0
        THEN [err |-> NoError, cache |-> cache]
        ELSE IF sub.raised
        THEN [err |-> Error("NoPossibleTypes", interface_field.type.d, "", "", "None"),
              cache |-> sub.cache]
        ELSE IF ~sub.result
        THEN [err |-> Error("FieldType", interface, interface_field.name, "", object),
              cache |-> sub.cache]
        ELSE [err |-> ArgsCheck(object, interface, interface_field, object_field),
              cache |-> sub.cache]

\* lines 158-211 for field f of the interface: [err, cache]
assert_object_implements_interface(impl, cache, object, interface, f) ==
    LET interface_field == Defs[interface].fields[f]
        at == IndexOf(Defs[object].fields, interface_field.name)
        object_field == Defs[object].fields[at]
        sub == is_type_sub_type_of(impl, cache, object_field.type, interface_field.type)
    IN  IF at = 0
        THEN [err |-> Error("MissingField", interface, interface_field.name, "", object),
              cache |-> cache]
        ELSE IF sub.raised
        THEN [err |-> Error("NoPossibleTypes", interface_field.type.d, "", "", "None"),
              cache |-> sub.cache]
        ELSE IF ~sub.result
        THEN [err |-> Error("FieldType", interface, interface_field.name, "", object),
              cache |-> sub.cache]
        ELSE [err |-> ArgsCheck(object, interface, interface_field, object_field),
              cache |-> sub.cache]

\* lines 31-32: the reduce is over; copy its result into self
update ==
    /\ pc = "reduce"
    /\ stack = <<>>
    /\ rootIdx > Len(types)
    /\ typeMap' = Update(typeMap, map_)
    /\ possible_type_map' = EmptyDict
    /\ pc' = "implementations"
    /\ UNCHANGED <<types, rootIdx, stack, map_, implementations, checks, err, expanded>>
    /\ UNCHANGED <<queryVars, threadVars>>
    /\ UNCHANGED <<lexVars, ruleVars>>

\* lines 35-41; the loops of lines 44-47 and 157 are then about to start
build_implementations ==
    /\ pc = "implementations"
    /\ implementations' = BuildImplementations(<<>>, Values(typeMap))
    /\ pc' = "conformance"
    /\ checks' = ConformanceItems(Values(typeMap))
    /\ UNCHANGED <<types, rootIdx, stack, map_, typeMap, possible_type_map, err, expanded>>
    /\ UNCHANGED <<queryVars, threadVars>>
    /\ UNCHANGED <<lexVars, ruleVars>>

\* lines 44-47 and 157-211: the check of one interface field
conformance ==
    /\ pc = "conformance"
    /\ checks # <<>>
    /\ LET item == Head(checks)
           res == assert_object_implements_interface(
                      implementations, possible_type_map, item.o, item.i, item.f)
       IN  /\ possible_type_map' = res.cache
           /\ IF res.err # NoError
              THEN Fail(res.err) /\ checks' = <<>>
              ELSE /\ checks' = Tail(checks)
                   /\ UNCHANGED <<pc, err, stack>>
    /\ UNCHANGED <<types, rootIdx, map_, typeMap, implementations, expanded>>
    /\ UNCHANGED <<queryVars, threadVars>>
    /\ UNCHANGED <<lexVars, ruleVars>>

\* __init__ returns: the GraphQLTypeMap exists
constructed ==
    /\ pc = "conformance"
    /\ checks = <<>>
    /\ pc' = "constructed"
    /\ UNCHANGED <<types, rootIdx, stack, map_, typeMap, implementations,
                   possible_type_map, checks, err, expanded>>
    /\ UNCHANGED <<queryVars, threadVars>>
    /\ UNCHANGED <<lexVars, ruleVars>>

Build ==
    \/ reduce_next
    \/ reducer
    \/ reducer_field
    \/ reducer_arg
    \/ update
    \/ build_implementations
    \/ conformance
    \/ constructed

(***************************************************************************)
(* The lexer: Source, Token and the scanning functions behind next_token.  *)
(* Offsets count from 0; the character at offset p of body is body[p + 1].  *)
(***************************************************************************)
\* characters that are written by name
BOM == "BOM"

TAB == "TAB"

LF == "LF"

CR == "CR"

\* the control characters U+0007 and U+0000
BEL == "BEL"

NUL == "NUL"

Quote == "\""

Backslash == "\\"

\* what reading past the end of the body gives
EOFChar == "<EOF>"

Digits == {"0", "1", "2"}

NameStart == {"_", "a", "b", "e", "E", "n", "u", "z", "F", "X"}

NameContinue == NameStart \cup Digits

HexDigits == Digits \cup {"a", "b", "e", "E", "F"}

ControlChars == {BEL, NUL}

LineTerminators == {LF, CR}

\* what the skip phase consumes one character at a time
Ignored == {BOM, TAB, " ", LF, CR, ","}

PunctuationKind ==
    ("!" :> "BANG") @@ ("$" :> "DOLLAR") @@ ("(" :> "PAREN_L") @@ (")" :> "PAREN_R")
    @@ (":" :> "COLON") @@ ("=" :> "EQUALS") @@ ("@" :> "AT")
    @@ ("[" :> "BRACKET_L") @@ ("]" :> "BRACKET_R") @@ ("{" :> "BRACE_L")
    @@ ("|" :> "PIPE") @@ ("}" :> "BRACE_R")

\* the escapes of one character and the character each stands for
EscapedChar ==
    (Quote :> Quote) @@ (Backslash :> Backslash) @@ ("/" :> "/") @@ ("b" :> "BS")
    @@ ("f" :> "FF") @@ ("n" :> LF) @@ ("r" :> CR) @@ ("t" :> TAB)

\* a token's value: absent, or the text
NoValue == <<>>

Value(text) == <<text>>

Token(kind, start, end, value) ==
    [kind |-> kind, start |-> start, end |-> end, value |-> value]

NoToken == Token("None", 0, 0, NoValue)

NoLexError == [msg |-> "none", at |-> 0, what |-> <<>>]

GraphQLSyntaxError(msg, position, what) == [msg |-> msg, at |-> position, what |-> what]

\* the outcome of a scan: a token or an error
Lexed(tok) == [error |-> NoLexError, token |-> tok]

Raised(e) == [error |-> e, token |-> NoToken]

char_code_at(b, position) ==
    IF position < Len(b) THEN b[position + 1] ELSE EOFChar

\* body[start:end]
Slice(b, start, end) ==
    SubSeq(b, start + 1, IF end > Len(b) THEN Len(b) ELSE end)

\* a comment that swallows the rest of the text
skip_comment_ToEnd(b, position) == Len(b)

RECURSIVE skip_comment(_, _)
\* a comment runs from '#' to the end of the line
skip_comment(b, position) ==
    IF position < Len(b) /\ b[position + 1] \notin LineTerminators \cup ControlChars
    THEN skip_comment(b, position + 1)
    ELSE position

RECURSIVE position_after_whitespace(_, _)
\* the skip phase: the offset of the first character that is not skipped
position_after_whitespace(b, position) ==
    IF position >= Len(b) THEN position
    ELSE IF b[position + 1] \in Ignored
    THEN position_after_whitespace(b, position + 1)
    ELSE IF b[position + 1] = "#"
    THEN position_after_whitespace(b, skip_comment(b, position + 1))
    ELSE position

RECURSIVE name_end(_, _)
\* the end of the longest run of name characters
name_end(b, position) ==
    IF char_code_at(b, position) \in NameContinue
    THEN name_end(b, position + 1)
    ELSE position

\* read_name that returns the name without moving past it
read_name_NoAdvance(b, start) ==
    Lexed(Token("NAME", start, start, Value(Slice(b, start, name_end(b, start + 1)))))

read_name(b, start) ==
    LET end == name_end(b, start + 1)
    IN  Lexed(Token("NAME", start, end, Value(Slice(b, start, end))))

RECURSIVE digits_end(_, _)
digits_end(b, position) ==
    IF char_code_at(b, position) \in Digits
    THEN digits_end(b, position + 1)
    ELSE position

\* read_digits that accepts no digit at all
read_digits_AllowNone(b, position) ==
    [error |-> NoLexError, pos |-> digits_end(b, position)]

\* one or more digits: [error, pos]
read_digits(b, position) ==
    IF char_code_at(b, position) \in Digits
    THEN [error |-> NoLexError, pos |-> digits_end(b, position + 1)]
    ELSE [error |-> GraphQLSyntaxError("Invalid number, expected digit but got",
                                       position, <<char_code_at(b, position)>>),
          pos |-> position]

read_number(b, start) ==
    LET afterSign == IF char_code_at(b, start) = "-" THEN start + 1 ELSE start
        int == IF char_code_at(b, afterSign) = "0"
               THEN IF char_code_at(b, afterSign + 1) \in Digits
                    THEN [error |-> GraphQLSyntaxError(
                                        "Invalid number, unexpected digit after 0",
                                        afterSign + 1, <<char_code_at(b, afterSign + 1)>>),
                          pos |-> afterSign + 1]
                    ELSE [error |-> NoLexError, pos |-> afterSign + 1]
               ELSE read_digits(b, afterSign)
        hasFraction == int.error = NoLexError /\ char_code_at(b, int.pos) = "."
        fraction == IF hasFraction THEN read_digits(b, int.pos + 1) ELSE int
        hasExponent == fraction.error = NoLexError
                       /\ char_code_at(b, fraction.pos) \in {"e", "E"}
        afterE == fraction.pos + 1
        exponent == IF hasExponent
                    THEN read_digits(b, IF char_code_at(b, afterE) \in {"+", "-"}
                                        THEN afterE + 1 ELSE afterE)
                    ELSE fraction
    IN  IF exponent.error # NoLexError
        THEN Raised(exponent.error)
        ELSE Lexed(Token(IF hasFraction \/ hasExponent THEN "FLOAT" ELSE "INT",
                         start, exponent.pos, Value(Slice(b, start, exponent.pos))))

\* upper case of a hexadecimal digit
HexUpper(c) == IF c = "a" THEN "A" ELSE IF c = "b" THEN "B" ELSE IF c = "e" THEN "E" ELSE c

\* the character of the code point written with four hexadecimal digits
unichr(hex) == "U+" \o HexUpper(hex[1]) \o HexUpper(hex[2]) \o HexUpper(hex[3]) \o HexUpper(hex[4])

RECURSIVE read_string_from(_, _, _, _)
\* the string that starts at start, scanned up to position, decoded into value
read_string_from(b, start, position, value) ==
    LET code == char_code_at(b, position)
        escape == char_code_at(b, position + 1)
        hex == Slice(b, position + 2, position + 6)
    IN  IF code = EOFChar \/ code \in LineTerminators
        THEN Raised(GraphQLSyntaxError("Unterminated string", position, <<>>))
        ELSE IF code = Quote
        THEN Lexed(Token("STRING", start, position + 1, Value(value)))
        ELSE IF code \in ControlChars
        THEN Raised(GraphQLSyntaxError("Invalid character within String", position, <<code>>))
        ELSE IF code # Backslash
        THEN read_string_from(b, start, position + 1, Append(value, code))
        ELSE IF escape \in DOMAIN EscapedChar
        THEN read_string_from(b, start, position + 2, Append(value, EscapedChar[escape]))
        ELSE IF escape = "u"
        THEN IF Len(hex) = 4 /\ \A k \in 1..4 : hex[k] \in HexDigits
             THEN read_string_from(b, start, position + 6, Append(value, unichr(hex)))
             ELSE Raised(GraphQLSyntaxError("Invalid character escape sequence",
                                            position + 1, <<Backslash, "u">> \o hex))
        ELSE Raised(GraphQLSyntaxError("Invalid character escape sequence",
                                       position + 1, <<Backslash, escape>>))

\* read_string whose value is the text between the quotes as written
read_string_Raw(b, start) ==
    LET lexed == read_string_from(b, start, start + 1, <<>>)
    IN  IF lexed.error # NoLexError
        THEN lexed
        ELSE Lexed(Token("STRING", start, lexed.token.end,
                         Value(Slice(b, start + 1, lexed.token.end - 1))))

read_string(b, start) == read_string_from(b, start, start + 1, <<>>)

\* the token that starts at or after from_position
read_token(b, from_position) ==
    LET position == position_after_whitespace(b, from_position)
        code == char_code_at(b, position)
    IN  IF position >= Len(b)
        THEN Lexed(Token("EOF", position, position, NoValue))
        ELSE IF code \in ControlChars
        THEN Raised(GraphQLSyntaxError("Invalid character", position, <<code>>))
        ELSE IF code \in DOMAIN PunctuationKind
        THEN Lexed(Token(PunctuationKind[code], position, position + 1, NoValue))
        ELSE IF code = "."
        THEN IF char_code_at(b, position + 1) = "." /\ char_code_at(b, position + 2) = "."
             THEN Lexed(Token("SPREAD", position, position + 3, NoValue))
             ELSE Raised(GraphQLSyntaxError("Unexpected character", position, <<code>>))
        ELSE IF code \in NameStart THEN read_name(b, position)
        ELSE IF code = "-" \/ code \in Digits THEN read_number(b, position)
        ELSE IF code = Quote THEN read_string(b, position)
        ELSE Raised(GraphQLSyntaxError("Unexpected character", position, <<code>>))

\* a location that ignores line breaks
get_location_OneLine(b, position) == [line |-> 1, column |-> position + 1]

RECURSIVE locate(_, _, _, _, _)
\* walk the body up to position, counting LF, CR and CR+LF as one break each
locate(b, p, position, line, lineStart) ==
    IF p >= position
    THEN [line |-> line, column |-> position - lineStart + 1]
    ELSE IF b[p + 1] = CR /\ char_code_at(b, p + 1) = LF /\ p + 1 < position
    THEN locate(b, p + 2, position, line + 1, p + 2)
    ELSE IF b[p + 1] \in LineTerminators
    THEN locate(b, p + 1, position, line + 1, p + 1)
    ELSE locate(b, p + 1, position, line, lineStart)

\* the 1-based line and column of an offset of the source
get_location(b, position) == locate(b, 0, position, 1, 0)

\* the syntax error as the caller sees it: with its line and column
Located(b, e) ==
    [msg |-> e.msg, at |-> e.at, what |-> e.what,
     line |-> get_location(b, e.at).line, column |-> get_location(b, e.at).column]

\* Lexer(Source(body)).next_token(): scan from the cursor; a token moves the
\* cursor to its end, a syntax error leaves the cursor where it was
next_token ==
    /\ LET lexed == read_token(body, currentPosition) IN
       IF lexed.error # NoLexError
       THEN /\ lex_error' = Located(body, lexed.error)
            /\ UNCHANGED <<currentPosition, token, prev_token>>
       ELSE /\ lex_error' = NoLexError
            /\ token' = lexed.token
            /\ prev_token' = token
            /\ currentPosition' = lexed.token.end
    /\ UNCHANGED <<body, buildVars, queryVars, threadVars, ruleVars>>

\* Lexer(Source(body)) for a body out of bodies
LexerInit(bodies) ==
    /\ body \in bodies
    /\ currentPosition = 0
    /\ token = NoToken
    /\ prev_token = NoToken
    /\ lex_error = NoLexError

(***************************************************************************)
(* UniqueFragmentNamesRule, and the visitor that walks the definitions of  *)
(* a document in order and calls the rule's enter hooks.                   *)
(***************************************************************************)
OperationDefinition == [kind |-> "operation", name |-> ""]

FragmentDefinition(name) == [kind |-> "fragment", name |-> name]

\* a name node is known by the place of its definition in the document
NameNode(i) == i

\* GraphQLError(duplicate_fragment_name_message(fragment_name), nodes)
GraphQLError(fragment_name, nodes) == [name |-> fragment_name, nodes |-> nodes]

\* context.report_error
report_error(errs, error) == Append(errs, error)

\* line 39 that stores the name also when it is known already
remember_Overwrite(known, fragment_name, node) ==
    (fragment_name :> node) @@ known

\* lines 31 and 38-39: the name is stored when it is not known yet
remember(known, fragment_name, node) ==
    IF fragment_name \in DOMAIN known
    THEN known
    ELSE (fragment_name :> node) @@ known

\* lines 25-26
enter_operation_definition ==
    /\ docIdx <= Len(document)
    /\ document[docIdx].kind = "operation"
    /\ docIdx' = docIdx + 1
    /\ UNCHANGED <<document, known_fragment_names, errors>>
    /\ UNCHANGED <<buildVars, queryVars, threadVars, lexVars>>

\* lines 28-40
enter_fragment_definition ==
    /\ docIdx <= Len(document)
    /\ document[docIdx].kind = "fragment"
    /\ LET fragment_name == document[docIdx].name IN
       /\ errors' =
             IF fragment_name \in DOMAIN known_fragment_names
             THEN report_error(errors,
                      GraphQLError(fragment_name,
                          <<known_fragment_names[fragment_name], NameNode(docIdx)>>))
             ELSE errors
       /\ known_fragment_names' =
             remember(known_fragment_names, fragment_name, NameNode(docIdx))
    /\ docIdx' = docIdx + 1
    /\ UNCHANGED document
    /\ UNCHANGED <<buildVars, queryVars, threadVars, lexVars>>

\* UniqueFragmentNamesRule(context) about to visit one of docs
RuleInit(docs) ==
    /\ document \in docs
    /\ docIdx = 1
    /\ known_fragment_names = EmptyDict
    /\ errors = <<>>

(***************************************************************************)
(* The roots: every list of at most MaxRoots of these references.          *)
(***************************************************************************)
\* the definitions that are met only through other definitions
InnerOnly == {"String", "En", "In", "I", "K", "A", "U"}

RootChoices ==
    {NoType, GraphQLNonNull(GraphQLList(Named("Q")))}
    \cup {Named(d) : d \in DefIds \ InnerOnly}

SeqsUpTo(S, n) == UNION {[1..k -> S] : k \in 0..n}

\* GraphQLTypeMap(types) is called for one of rootLists
BuildInit(rootLists) ==
    /\ types \in rootLists
    /\ pc = "reduce"
    /\ rootIdx = 1
    /\ stack = <<>>
    /\ map_ = <<>>
    /\ typeMap = <<>>
    /\ implementations = <<>>
    /\ possible_type_map = EmptyDict
    /\ checks = <<>>
    /\ err = NoError
    /\ expanded = [d \in DefIds |-> 0]
    /\ ret = NoCall
    /\ probe = NoCall
    /\ tpc = [t \in Threads |-> "idle"]
    /\ targ = [t \in Threads |-> NoCall]
    /\ tret = [t \in Threads |-> NoCall]

\* a type map under construction; no text is lexed and no document visited
InitWith(rootLists) ==
    /\ BuildInit(rootLists)
    /\ LexerInit({<<>>})
    /\ RuleInit({<<>>})

Init == InitWith(SeqsUpTo(RootChoices, MaxRoots))

Next == Build

Spec == Init /\ [][Next]_vars

\* construction runs to its end
FairSpec == Spec /\ WF_vars(Next)


(***************************************************************************)
(* Queries on the constructed map, one caller at a time.                   *)
(***************************************************************************)
\* the abstract types and candidates callers ask about; U2 is an abstract type
\* that shares its name with U, A2 an object type that shares its name with A
QueryAbstracts == {"I", "U", "U2", "J", "V"}

QueryCandidates == {"A", "B", "A2"}

\* lines 49-56
query_get_possible_types(a) ==
    /\ pc = "constructed"
    /\ ret' = Call(a, "None", "list", get_possible_types(implementations, a))
    /\ UNCHANGED <<buildVars, probe, threadVars>>
    /\ UNCHANGED <<lexVars, ruleVars>>

\* lines 58-76, run without interruption; keep chooses whether the call before
\* this one is the one that later calls are compared with
query_is_possible_type(a, c, keep) ==
    /\ pc = "constructed"
    /\ LET res == is_possible_type(implementations, possible_type_map, a, c) IN
       /\ possible_type_map' = res.cache
       /\ ret' = Call(a, c, IF res.raised THEN "raised" ELSE Bool(res.result), <<>>)
    /\ probe' = IF keep /\ probe = NoCall /\ ret.r \in {"true", "false"} THEN ret ELSE probe
    /\ UNCHANGED <<types, pc, rootIdx, stack, map_, typeMap, implementations,
                   checks, err, expanded>>
    /\ UNCHANGED threadVars
    /\ UNCHANGED <<lexVars, ruleVars>>

Query ==
    \/ \E a \in QueryAbstracts : query_get_possible_types(a)
    \/ \E a \in QueryAbstracts, c \in QueryCandidates, keep \in BOOLEAN :
          query_is_possible_type(a, c, keep)

QueryRootChoices ==
    {NoType, Named("Q"), Named("L"), Named("U2"), Named("J"), Named("V")}

InitQ == InitWith(SeqsUpTo(QueryRootChoices, MaxQueryRoots))

NextQ == Build \/ Query

\* construction followed by sequential queries
SpecQ == InitQ /\ [][NextQ]_vars

(***************************************************************************)
(* is_possible_type (lines 58-76) called by several threads on one map.    *)
(* The interpreter may switch threads between the steps below.             *)
(***************************************************************************)
ConcAbstracts == {"I", "U"}

ConcCandidates == {"A", "B"}

\* lines 64-69: possible_types = self.get_possible_types(...); assert
ipt_call(t, a, c) ==
    /\ pc = "constructed"
    /\ tpc[t] = "idle"
    /\ LET possible_types == get_possible_types(implementations, a) IN
       IF possible_types = <<>>
       THEN /\ tret' = [tret EXCEPT ![t] = Call(a, c, "raised", <<>>)]
            /\ UNCHANGED <<tpc, targ>>
       ELSE /\ targ' = [targ EXCEPT ![t] = Call(a, c, "none", possible_types)]
            /\ tpc' = [tpc EXCEPT ![t] = "test"]
            /\ tret' = [tret EXCEPT ![t] = NoCall]
    /\ UNCHANGED <<buildVars, queryVars>>
    /\ UNCHANGED <<lexVars, ruleVars>>

\* line 71: abstract_type.name not in self._possible_type_map
ipt_test(t) ==
    /\ tpc[t] = "test"
    /\ tpc' = [tpc EXCEPT ![t] =
                 IF Defs[targ[t].a].name \notin DOMAIN possible_type_map
                 THEN "getitem" ELSE "return"]
    /\ UNCHANGED <<buildVars, queryVars, targ, tret>>
    /\ UNCHANGED <<lexVars, ruleVars>>

\* line 72: self._possible_type_map[abstract_type.name]; the defaultdict
\* inserts an empty set for a missing key
ipt_getitem(t) ==
    /\ tpc[t] = "getitem"
    /\ possible_type_map' =
          IF Defs[targ[t].a].name \in DOMAIN possible_type_map
          THEN possible_type_map
          ELSE (Defs[targ[t].a].name :> {}) @@ possible_type_map
    /\ tpc' = [tpc EXCEPT ![t] = "update"]
    /\ UNCHANGED <<types, pc, rootIdx, stack, map_, typeMap, implementations,
                   checks, err, expanded>>
    /\ UNCHANGED <<queryVars, targ, tret>>
    /\ UNCHANGED <<lexVars, ruleVars>>

\* lines 72-74: .update([p.name for p in possible_types])
ipt_update(t) ==
    /\ tpc[t] = "update"
    /\ possible_type_map' =
          [possible_type_map EXCEPT ![Defs[targ[t].a].name] = @ \cup NamesOf(targ[t].l)]
    /\ tpc' = [tpc EXCEPT ![t] = "return"]
    /\ UNCHANGED <<types, pc, rootIdx, stack, map_, typeMap, implementations,
                   checks, err, expanded>>
    /\ UNCHANGED <<queryVars, targ, tret>>
    /\ UNCHANGED <<lexVars, ruleVars>>

\* line 76
ipt_return(t) ==
    /\ tpc[t] = "return"
    /\ tret' = [tret EXCEPT ![t] =
                  Call(targ[t].a, targ[t].c,
                       Bool(Defs[targ[t].c].name \in possible_type_map[Defs[targ[t].a].name]),
                       <<>>)]
    /\ tpc' = [tpc EXCEPT ![t] = "idle"]
    /\ targ' = [targ EXCEPT ![t] = NoCall]
    /\ UNCHANGED <<buildVars, queryVars>>
    /\ UNCHANGED <<lexVars, ruleVars>>

Concurrent ==
    \E t \in Threads :
        \/ \E a \in ConcAbstracts, c \in ConcCandidates : ipt_call(t, a, c)
        \/ ipt_test(t)
        \/ ipt_getitem(t)
        \/ ipt_update(t)
        \/ ipt_return(t)

InitC == InitWith({<<Named("Q")>>, <<Named("B")>>})

NextC == Build \/ Concurrent

\* construction followed by concurrent queries
SpecC == InitC /\ [][NextC]_vars

(***************************************************************************)
(* One Lexer, asked for tokens again and again.                            *)
(***************************************************************************)
\* one character of every kind the scanner tells apart
LexChars == {" ", LF, "#", "a", "1", ".", "!", Quote, "?"}

InitL ==
    /\ BuildInit({<<>>})
    /\ LexerInit(SeqsUpTo(LexChars, MaxBody))
    /\ RuleInit({<<>>})

NextL == next_token

SpecL == InitL /\ [][NextL]_vars

\* the caller keeps calling next_token
FairSpecL == SpecL /\ WF_vars(next_token)

RECURSIVE Concat(_)
\* the pieces written one after the other
Concat(pieces) ==
    IF pieces = <<>> THEN <<>> ELSE Head(pieces) \o Concat(Tail(pieces))

TextsOf(pieces, n) == {Concat(ps) : ps \in SeqsUpTo(pieces, n)}

\* what texts with values are made of: quotes, plain characters, escapes
\* (well-formed and not), a name, numbers, punctuation and blanks
ValuePieces ==
    {<<Quote>>, <<"a">>, <<Backslash, "n">>, <<Backslash, Quote>>,
     <<Backslash, "u", "0", "0", "e", "F">>, <<Backslash, "z">>,
     <<"-", "1", ".", "0">>, <<"1">>, <<"!">>, <<" ">>}

InitS ==
    /\ BuildInit({<<>>})
    /\ LexerInit(TextsOf(ValuePieces, MaxPieces))
    /\ RuleInit({<<>>})

\* one Lexer on a text with strings, names and numbers
SpecS == InitS /\ [][NextL]_vars

\* what texts with skipped runs are made of: each skipped character, a comment
\* start, a run of commas, a name and a punctuator
SkipPieces ==
    {<<BOM>>, <<" ">>, <<TAB>>, <<LF>>, <<CR>>, <<",">>, <<",", ",", ",">>,
     <<"#">>, <<"a", "b">>, <<"!">>}

InitK ==
    /\ BuildInit({<<>>})
    /\ LexerInit(TextsOf(SkipPieces, MaxPieces))
    /\ RuleInit({<<>>})

\* one Lexer on a text with byte-order marks, blanks, commas and comments
SpecK == InitK /\ [][NextL]_vars

\* the characters numbers are written with, and a letter
NumberChars == {"-", "0", "1", ".", "e", "E", "+", "a"}

InitN ==
    /\ BuildInit({<<>>})
    /\ LexerInit(SeqsUpTo(NumberChars, MaxNumber))
    /\ RuleInit({<<>>})

\* one Lexer on a text of number characters
SpecN == InitN /\ [][NextL]_vars

\* what texts that stop the scanner are made of: names, a dash, a digit, a
\* punctuator, a quote, a character no token starts with, blanks and line breaks
ResumePieces ==
    {<<"a">>, <<"b">>, <<"-">>, <<"1">>, <<"!">>, <<Quote>>, <<"?">>,
     <<" ">>, <<LF>>, <<CR>>, <<"#">>}

InitR ==
    /\ BuildInit({<<>>})
    /\ LexerInit(TextsOf(ResumePieces, MaxPieces))
    /\ RuleInit({<<>>})

\* one Lexer on a text that may hold an unscannable position
SpecR == InitR /\ [][NextL]_vars

(***************************************************************************)
(* One UniqueFragmentNamesRule walked over one document.                   *)
(***************************************************************************)
FragmentNames == {"f", "g"}

DefinitionChoices ==
    {OperationDefinition} \cup {FragmentDefinition(n) : n \in FragmentNames}

InitV ==
    /\ BuildInit({<<>>})
    /\ LexerInit({<<>>})
    /\ RuleInit(SeqsUpTo(DefinitionChoices, MaxDefinitions))

NextV == enter_operation_definition \/ enter_fragment_definition

SpecV == InitV /\ [][NextV]_vars

(***************************************************************************)
(* The type graph as the definitions declare it, independent of the        *)
(* traversal above.                                                        *)
(***************************************************************************)
FieldTypesOf(d) == {Defs[d].fields[i].type.d : i \in DOMAIN Defs[d].fields}

ArgRefsOf(d) ==
    UNION {{Defs[d].fields[i].args[j].type.d : j \in DOMAIN Defs[d].fields[i].args} :
              i \in DOMAIN Defs[d].fields}

MembersOf(d) == {Defs[d].types[k] : k \in DOMAIN Defs[d].types}

InterfacesOf(d) == {Defs[d].interfaces[k] : k \in DOMAIN Defs[d].interfaces}

\* what a stored type must bring along
References(d) ==
    (IF Defs[d].kind = "Union" THEN MembersOf(d) ELSE {})
    \cup (IF Defs[d].kind = "Object" THEN InterfacesOf(d) ELSE {})
    \cup (IF Defs[d].kind \in {"Object", "Interface", "InputObject"}
          THEN FieldTypesOf(d) ELSE {})
    \cup (IF Defs[d].kind \in {"Object", "Interface"} THEN ArgRefsOf(d) ELSE {})

RECURSIVE Closure(_)
Closure(S) ==
    LET T == S \cup UNION {References(d) : d \in S}
    IN  IF T = S THEN S ELSE Closure(T)

ReachableFrom == [d \in DefIds |-> Closure({d})]

\* the definitions reachable from a list of roots
Reachable(roots) ==
    UNION {ReachableFrom[roots[k].d] : k \in {k \in DOMAIN roots : roots[k].d # "None"}}

OnCycle(d) == d \in UNION {ReachableFrom[e] : e \in References(d)}

Terminated == pc \in {"constructed", "failed"}

Stored == {typeMap[i].val : i \in DOMAIN typeMap}

\* C1: after a successful construction every type of the map has the innermost
\* named type of each of its union members, interfaces, field types and
\* argument types in the map, under that type's name.
C1_ClosureComplete ==
    pc = "constructed" =>
        \A T \in Stored : \A R \in References(T) :
            /\ Defs[R].name \in Keys(typeMap)
            /\ Get(typeMap, Defs[R].name) = R

\* C1 witness: Q was a root; its argument types, its union, the union's members
\* and their interface were all found
C1_Witness ==
    /\ pc = "constructed"
    /\ types = <<Named("Q")>>
    /\ {"Q", "U", "A", "B", "I", "In", "En", "String"} \subseteq Stored


UniqueKeys(m) == \A i, j \in DOMAIN m : m[i].key = m[j].key => i = j

\* two distinct definitions of one name are reachable from the roots
DuplicatesReachable ==
    \E d, e \in Reachable(types) : d # e /\ Defs[d].name = Defs[e].name

\* the kinds a type reference may have as an input or an output
IsInputRef(r) == r.d \in DefIds /\ Defs[r.d].kind \in {"Scalar", "Enum", "InputObject"}

IsOutputRef(r) ==
    r.d \in DefIds /\ Defs[r.d].kind \in {"Scalar", "Object", "Interface", "Union", "Enum"}

\* every field and argument of d stands in a legal position
PositionLegal(d) ==
    /\ Defs[d].kind = "InputObject" =>
          \A i \in DOMAIN Defs[d].fields :
              Defs[d].fields[i].isInputObjectField /\ IsInputRef(Defs[d].fields[i].type)
    /\ Defs[d].kind \in {"Object", "Interface"} =>
          \A i \in DOMAIN Defs[d].fields :
              /\ IsOutputRef(Defs[d].fields[i].type)
              /\ \A j \in DOMAIN Defs[d].fields[i].args :
                    /\ Defs[d].fields[i].args[j].isArgument
                    /\ IsInputRef(Defs[d].fields[i].args[j].type)

\* the reducer is about to see a named type whose name is already mapped
Revisiting(d) ==
    /\ pc = "reduce"
    /\ stack # <<>>
    /\ Head(stack) = Visit(Named(d))
    /\ Defs[d].name \in Keys(map_)

\* C2 as stated: the map's names are unique, and whenever two distinct
\* definitions of one name are reachable from the roots construction ends with
\* the 'Schema must contain unique named types' error.
C2_DuplicateAlwaysReported ==
    /\ UniqueKeys(map_) /\ UniqueKeys(typeMap)
    /\ (Terminated /\ DuplicatesReachable) =>
          (pc = "failed" /\ err.kind = "DuplicateName")

\* C2 amended: the map's names are unique; two distinct reachable definitions
\* of one name make construction fail, with the unique-named-types error
\* naming the duplicate when the traversal reaches the second of them, which it
\* does unless a type-position check fails first; revisiting the same
\* definition changes nothing.
C2_NameUniqueness ==
    /\ [](/\ UniqueKeys(map_) /\ UniqueKeys(typeMap)
          /\ (Terminated /\ DuplicatesReachable) => pc = "failed"
          /\ (Terminated /\ DuplicatesReachable
                /\ \A d \in Reachable(types) : PositionLegal(d))
                => err.kind = "DuplicateName"
          /\ err.kind = "DuplicateName" =>
                /\ err.type # err.other
                /\ Defs[err.type].name = Defs[err.other].name
                /\ Get(map_, Defs[err.type].name) = err.other)
    /\ [][\A d \in DefIds : Revisiting(d) =>
             IF Get(map_, Defs[d].name) = d
             THEN map_' = map_ /\ pc' = pc /\ err' = err /\ stack' = Tail(stack)
             ELSE /\ pc' = "failed" /\ map_' = map_
                  /\ err' = Error("DuplicateName", d, "", "", Get(map_, Defs[d].name))]_vars

\* C2 witness: Q brought in union U, then the other union named U was met
C2_Witness ==
    /\ pc = "failed"
    /\ types = <<Named("Q"), Named("U2")>>
    /\ err = Error("DuplicateName", "U2", "", "", "U")


\* how often definition d, and its name, occur in the map
TimesStored(d) == Cardinality({i \in DOMAIN typeMap : typeMap[i].val = d})

TimesKeyed(n) == Cardinality({i \in DOMAIN typeMap : typeMap[i].key = n})

\* C3: construction terminates on every type graph, cyclic ones included; no
\* definition is expanded (inserted and recursed into) more than once; and in
\* the resulting map every reachable type that lies on a cycle occurs exactly
\* once.
C3_TerminatesOnCycles ==
    /\ <>Terminated
    /\ [](\A d \in DefIds : expanded[d] <= 1)
    /\ [](pc = "constructed" =>
            \A d \in Reachable(types) :
                OnCycle(d) => TimesStored(d) = 1 /\ TimesKeyed(Defs[d].name) = 1)

\* C3 witness: B was a root; B -> A -> B is a cycle through fields, A -> I -> I
\* one through an interface
C3_Witness ==
    /\ pc = "constructed"
    /\ types = <<Named("B")>>
    /\ OnCycle("A") /\ OnCycle("B") /\ OnCycle("I")
    /\ "B" \in ReachableFrom["A"] /\ "A" \in ReachableFrom["B"]
    /\ expanded["A"] = 1 /\ expanded["B"] = 1 /\ expanded["I"] = 1


(***************************************************************************)
(* Interface conformance as the definitions declare it.                    *)
(***************************************************************************)
IsNonNull(r) == r.w # <<>> /\ Head(r.w) = "NonNull"

IsList(r) == r.w # <<>> /\ Head(r.w) = "List"

RECURSIVE Covariant(_, _)
\* sub is usable where super is expected: the identical type, an object that
\* declares the interface, a member of the union, or a covariant wrapping
Covariant(sub, super) ==
    IF sub = super THEN TRUE
    ELSE IF IsNonNull(super)
    THEN IsNonNull(sub) /\ Covariant(of_type(sub), of_type(super))
    ELSE IF IsNonNull(sub) THEN Covariant(of_type(sub), super)
    ELSE IF IsList(super)
    THEN IsList(sub) /\ Covariant(of_type(sub), of_type(super))
    ELSE IF IsList(sub) THEN FALSE
    ELSE /\ Defs[sub.d].kind = "Object"
         /\ \/ Defs[super.d].kind = "Interface" /\ super.d \in InterfacesOf(sub.d)
            \/ Defs[super.d].kind = "Union" /\ sub.d \in MembersOf(super.d)

FieldNames(d) == {Defs[d].fields[i].name : i \in DOMAIN Defs[d].fields}

FieldOf(d, n) == Defs[d].fields[CHOOSE i \in DOMAIN Defs[d].fields : Defs[d].fields[i].name = n]

ArgNames(field) == {field.args[j].name : j \in DOMAIN field.args}

ArgOf(field, n) == field.args[CHOOSE j \in DOMAIN field.args : field.args[j].name = n]

\* the (object, interface, field name) triples among a set of definitions
Implementing(S) ==
    {<<O, I, n>> \in S \X DefIds \X {"f", "g", "j"} :
        Defs[O].kind = "Object" /\ I \in InterfacesOf(O) /\ n \in FieldNames(I)}

Omits(O, n) == n \notin FieldNames(O)

\* C4 as stated: a constructed map has only conforming objects, and an object
\* that omits an interface field makes construction fail with the message
\* naming the interface, the object and the field.
C4_OmissionAlwaysNamed ==
    /\ pc = "constructed" =>
          \A t \in Implementing(Stored) :
              /\ ~Omits(t[1], t[3])
              /\ Covariant(FieldOf(t[1], t[3]).type, FieldOf(t[2], t[3]).type)
    /\ \A t \in Implementing(Reachable(types)) :
          (Terminated /\ Omits(t[1], t[3])) =>
              (pc = "failed" /\ err = Error("MissingField", t[2], t[3], "", t[1]))

\* C4 amended: a constructed map has only conforming objects; an object that
\* omits an interface field makes construction fail, and the failure names the
\* interface, the object and the field when this check is the first to fail.
C4_FieldConformance ==
    /\ [](/\ pc = "constructed" =>
                \A t \in Implementing(Stored) :
                    /\ ~Omits(t[1], t[3])
                    /\ Covariant(FieldOf(t[1], t[3]).type, FieldOf(t[2], t[3]).type)
          /\ (Terminated /\ \E t \in Implementing(Reachable(types)) : Omits(t[1], t[3]))
                => pc = "failed"
          /\ err.kind = "MissingField" =>
                /\ <<err.other, err.type, err.field>> \in Implementing(Stored)
                /\ Omits(err.other, err.field))
    /\ [][(pc = "conformance" /\ checks # <<>>
             /\ Omits(Head(checks).o, Defs[Head(checks).i].fields[Head(checks).f].name))
          => (/\ pc' = "failed"
              /\ err' = Error("MissingField", Head(checks).i,
                              Defs[Head(checks).i].fields[Head(checks).f].name, "",
                              Head(checks).o))]_vars

\* C4 witness: C implements I without I's field f
C4_Witness ==
    /\ pc = "failed"
    /\ types = <<Named("C")>>
    /\ err = Error("MissingField", "I", "f", "", "C")

\* the object's field has the interface field's argument a with the same type
HasIdenticalArg(object_field, a) ==
    /\ a.name \in ArgNames(object_field)
    /\ ArgOf(object_field, a.name).type = a.type

ArgsConform(O, I, n) ==
    \A j \in DOMAIN FieldOf(I, n).args :
        HasIdenticalArg(FieldOf(O, n), FieldOf(I, n).args[j])

\* C5: in a constructed map every argument an interface field declares is on
\* the implementing object's field with the identical type; a missing or
\* differently typed (even if covariant) argument makes construction fail.
C5_ArgumentConformance ==
    /\ pc = "constructed" =>
          \A t \in Implementing(Stored) : ArgsConform(t[1], t[2], t[3])
    /\ (Terminated /\ \E t \in Implementing(Reachable(types)) :
                          ~Omits(t[1], t[3]) /\ ~ArgsConform(t[1], t[2], t[3]))
          => pc = "failed"
    /\ err.kind \in {"MissingArg", "ArgType"} =>
          /\ <<err.other, err.type, err.field>> \in Implementing(Stored)
          /\ ~ArgsConform(err.other, err.type, err.field)

\* C5 witness: D.f takes x: String! where I.f takes x: String, a covariant but
\* not identical type
C5_Witness ==
    /\ pc = "failed"
    /\ types = <<Named("D")>>
    /\ Covariant(ArgOf(FieldOf("D", "f"), "x").type, ArgOf(FieldOf("I", "f"), "x").type)
    /\ err = Error("ArgType", "I", "f", "x", "D")

\* the arguments the object's field declares and the interface's field does not
ExtraArgs(O, I, n) ==
    {FieldOf(O, n).args[j] : j \in {j \in DOMAIN FieldOf(O, n).args :
        FieldOf(O, n).args[j].name \notin ArgNames(FieldOf(I, n))}}

\* C6: an argument only the object's field declares is accepted exactly when
\* its type is not non-null: a constructed map has no required extra argument,
\* a reachable required extra argument makes construction fail, and the
\* extra-argument error is raised for a non-null extra argument only.
C6_ExtraArguments ==
    /\ pc = "constructed" =>
          \A t \in Implementing(Stored) :
              \A b \in ExtraArgs(t[1], t[2], t[3]) : ~IsNonNull(b.type)
    /\ (Terminated /\ \E t \in Implementing(Reachable(types)) :
                          /\ ~Omits(t[1], t[3])
                          /\ \E b \in ExtraArgs(t[1], t[2], t[3]) : IsNonNull(b.type))
          => pc = "failed"
    /\ err.kind = "RequiredExtraArg" =>
          /\ <<err.other, err.type, err.field>> \in Implementing(Stored)
          /\ \E b \in ExtraArgs(err.other, err.type, err.field) :
                b.name = err.arg /\ IsNonNull(b.type)

\* C6 witness: A.f adds the nullable argument y: [String!] to I.f and the map
\* was constructed
C6_Witness ==
    /\ pc = "constructed"
    /\ "A" \in Stored
    /\ \E b \in ExtraArgs("A", "I", "f") :
          b.name = "y" /\ ~IsNonNull(b.type) /\ IsNonNull(of_type(b.type))

\* C7: in a constructed map every field of an input object is an input field
\* of an input type, every field of an object or interface has an output type
\* and each of its arguments is an argument of an input type; any violation
\* reachable from the roots makes construction fail.
C7_PositionLegality ==
    /\ pc = "constructed" => \A T \in Stored : PositionLegal(T)
    /\ (Terminated /\ \E d \in Reachable(types) : ~PositionLegal(d)) => pc = "failed"

\* C7 witness: a constructed map holding the input object In and object Q,
\* whose field q takes arguments
C7_Witness ==
    /\ pc = "constructed"
    /\ {"Q", "In", "A", "I"} \subseteq Stored
    /\ Defs["Q"].fields[1].args # <<>>


(***************************************************************************)
(* The possible-type cache.                                                *)
(***************************************************************************)
\* what is_possible_type answers without a cache
Uncached(a, c) == Bool(Defs[c].name \in NamesOf(get_possible_types(implementations, a)))

\* C8: whatever the interleaving of concurrent first calls, every call returns
\* what it returns sequentially, and once all calls are over each cache entry
\* is the full name set.
C8_ConcurrentFirstAccessSafe ==
    /\ \A t \in Threads :
          tret[t].r \in {"true", "false"} => tret[t].r = Uncached(tret[t].a, tret[t].c)
    /\ (\A t \in Threads : tpc[t] = "idle") =>
          \A a \in ConcAbstracts :
              Defs[a].name \in DOMAIN possible_type_map =>
                  possible_type_map[Defs[a].name]
                      = NamesOf(get_possible_types(implementations, a))

\* C9: every is_possible_type call returns what a cache-free implementation
\* returns at that moment, also for distinct abstract types that share a name.
C9_CacheIsPureOptimization ==
    /\ ret.r \in {"true", "false"} => ret.r = Uncached(ret.a, ret.c)
    /\ ret.r = "raised" => get_possible_types(implementations, ret.a) = <<>>

\* C10: a second is_possible_type call for the same abstract/candidate pair,
\* whatever was queried in between, returns what the earlier one returned; and
\* no query changes what get_possible_types returns for any abstract type.
C10_QueryStability ==
    /\ []((/\ probe # NoCall
           /\ ret.r \in {"true", "false"}
           /\ ret.a = probe.a /\ ret.c = probe.c) => ret.r = probe.r)
    /\ [][pc = "constructed" =>
            \A a \in QueryAbstracts :
                get_possible_types(implementations', a)
                    = get_possible_types(implementations, a)]_vars

\* C10 witness: is_possible_type(U, A2) was called, then, after the kept call,
\* called again; both calls answered
C10_Witness ==
    /\ pc = "constructed"
    /\ "U" \in Stored
    /\ probe = Call("U", "A2", "true", <<>>)
    /\ ret = Call("U", "A2", "true", <<>>)

(***************************************************************************)
(* C11: an abstract type without possible types                            *)
(***************************************************************************)
\* the abstract type has no possible type: a union without members, or an
\* interface that no object type of the map declares
NoPossibleTypes(a) ==
    IF isinstance(a, {"Union"})
    THEN Defs[a].types = <<>>
    ELSE ~ \E o \in Stored : isinstance(o, {"Object"}) /\ a \in InterfacesOf(o)

\* C11: is_possible_type on an abstract type that has no possible type fails
\* with "Could not find possible implementing types", whatever the candidate,
\* instead of answering false; and the failing call leaves the possible-type
\* cache and every other part of the map as they were.
C11_EmptyPossibleTypesFatal ==
    /\ [](pc = "constructed" /\ ret.c # "None" /\ NoPossibleTypes(ret.a)
            => ret.r = "raised")
    /\ [](pc = "constructed" /\ ret.r = "raised" => NoPossibleTypes(ret.a))
    /\ [][pc = "constructed" /\ ret'.r = "raised"
            => possible_type_map' = possible_type_map /\ UNCHANGED buildVars]_vars

\* J is in the map without an implementer, the cache already holds an entry,
\* and is_possible_type(J, A) has just failed
C11_Witness ==
    /\ pc = "constructed"
    /\ "J" \in Stored
    /\ ret = Call("J", "A", "raised", <<>>)
    /\ DOMAIN possible_type_map # {}

(***************************************************************************)
(* C12: construction is fail-fast                                          *)
(***************************************************************************)
\* the errors the reducer raises (lines 87-142)
ReducerErrors ==
    {"DuplicateName", "NotInputObjectField", "FieldNotInputType",
     "FieldNotOutputType", "NotArgument", "ArgNotInputType"}

\* C12: a failed build check ends construction at once: an error is recorded
\* exactly when construction has failed, after the failure nothing changes any
\* more (no further type or check is processed, the error is not replaced, the
\* map never becomes constructed); a reducer error leaves self and the
\* implementer index empty, and a conformance error is raised only after every
\* stored type passed the reducer's checks.
C12_FailFast ==
    /\ [](err # NoError <=> pc = "failed")
    /\ [](pc = "failed" /\ err.kind \in ReducerErrors
            => typeMap = <<>> /\ implementations = <<>>)
    /\ [](pc = "failed" /\ err.kind \notin ReducerErrors
            => UniqueKeys(typeMap) /\ \A d \in Stored : PositionLegal(d))
    /\ [][pc # "failed"]_vars

\* the reducer failed on an input-object field while a root was still waiting
C12_Witness ==
    /\ pc = "failed"
    /\ err.kind = "FieldNotInputType"
    /\ rootIdx <= Len(types)
    /\ map_ # <<>>
    /\ typeMap = <<>>

(***************************************************************************)
(* C13: EOF and the order of the tokens                                    *)
(***************************************************************************)
\* C13: unless a lexical error is raised, repeated next_token calls reach a
\* token of kind EOF; EOF is the empty range at the end of the input, and every
\* later call returns that same token; every token has start <= end and starts
\* at or after the end of the token returned before it.
C13_EofIdempotentAndMonotonic ==
    /\ <>(token.kind = "EOF" \/ lex_error # NoLexError)
    /\ [](token.kind = "EOF" => token.start = Len(body) /\ token.end = Len(body))
    /\ [][token.kind = "EOF" => token' = token /\ lex_error' = NoLexError]_vars
    /\ [](token # NoToken => token.start <= token.end)
    /\ [](prev_token # NoToken => prev_token.end <= token.start)

\* a name, then EOF after the skipped rest, then EOF again
C13_Witness ==
    /\ Len(body) > 1
    /\ body[1] = "a"
    /\ token.kind = "EOF"
    /\ prev_token.kind = "EOF"
    /\ lex_error = NoLexError

(***************************************************************************)
(* C14: a token's value and the text it spans                              *)
(***************************************************************************)
RECURSIVE EscapeDecode(_)
\* text with every escape sequence replaced by the character it stands for
EscapeDecode(text) ==
    IF text = <<>> THEN <<>>
    ELSE IF Head(text) # Backslash \/ Len(text) = 1
    THEN <<Head(text)>> \o EscapeDecode(Tail(text))
    ELSE IF text[2] \in DOMAIN EscapedChar
    THEN <<EscapedChar[text[2]]>> \o EscapeDecode(SubSeq(text, 3, Len(text)))
    ELSE IF text[2] = "u" /\ Len(text) >= 6 /\ \A k \in 3..6 : text[k] \in HexDigits
    THEN <<unichr(SubSeq(text, 3, 6))>> \o EscapeDecode(SubSeq(text, 7, Len(text)))
    ELSE <<Head(text)>> \o EscapeDecode(Tail(text))

\* the source text of the token: source.body[start:end]
Spanned(tok) == Slice(body, tok.start, tok.end)

\* C14 as stated: a NAME, INT or FLOAT token's value is body[start:end]; a
\* STRING token's value is body[start:end] after escape-decoding; punctuation
\* and EOF tokens have no value.
C14_ValueRoundTrip ==
    token # NoToken =>
        /\ token.kind \in {"NAME", "INT", "FLOAT"} => token.value = Value(Spanned(token))
        /\ token.kind = "STRING" => token.value = Value(EscapeDecode(Spanned(token)))
        /\ token.kind \notin {"NAME", "INT", "FLOAT", "STRING"} => token.value = NoValue

\* C14, amended: a NAME, INT or FLOAT token's value is body[start:end]; a
\* STRING token spans its two quotes, and its value is the text between them,
\* body[start+1:end-1], after escape-decoding; punctuation and EOF tokens have
\* no value.
C14_ValueRoundTripInsideQuotes ==
    token # NoToken =>
        /\ token.kind \in {"NAME", "INT", "FLOAT"} => token.value = Value(Spanned(token))
        /\ token.kind = "STRING" =>
              /\ body[token.start + 1] = Quote
              /\ body[token.end] = Quote
              /\ token.value =
                    Value(EscapeDecode(Slice(body, token.start + 1, token.end - 1)))
        /\ token.kind \notin {"NAME", "INT", "FLOAT", "STRING"} => token.value = NoValue

\* the string "\n", an escape between two quotes, was returned
C14_Witness ==
    /\ token.kind = "STRING"
    /\ token.value = Value(<<LF>>)
    /\ Spanned(token) = <<Quote, Backslash, "n", Quote>>

(***************************************************************************)
(* C15: the skip phase                                                     *)
(***************************************************************************)
\* where the scan that returned token started
ScanStart == IF prev_token = NoToken THEN 0 ELSE prev_token.end

\* offset p lies in a comment that began at or after from: a '#' with no line
\* terminator between it and p
InComment(b, from, p) ==
    \E q \in from..p :
        /\ b[q + 1] = "#"
        /\ \A r \in q..p : b[r + 1] \notin LineTerminators

\* the character at offset p belongs to a skipped run
Skipped(b, from, p) == b[p + 1] \in Ignored \/ InComment(b, from, p)

\* C15: before each token the lexer consumes the whole run of byte-order marks,
\* spaces, tabs, line terminators, commas and comments in front of it: every
\* character between the start of the scan and the token is one of these, the
\* token starts at the first character that is not, a run yields no token of
\* its own (EOF exactly at the end of the text), and the token's offsets count
\* the skipped characters: its text is found at these offsets of the body.
C15_SkipPhase ==
    token # NoToken =>
        /\ \A p \in ScanStart..(token.start - 1) : Skipped(body, ScanStart, p)
        /\ token.start < Len(body) => ~ Skipped(body, ScanStart, token.start)
        /\ token.kind = "EOF" <=> token.start = Len(body)
        /\ token.kind \in {"NAME", "BANG", "EOF"}
        /\ token.kind = "NAME" => token.value = Value(Spanned(token))
        /\ token.kind = "BANG" => Spanned(token) = <<"!">>

\* byte-order mark, space, name: the name is returned at [2,4)
C15_Witness ==
    /\ body = <<BOM, " ", "a", "b">>
    /\ token = Token("NAME", 2, 4, Value(<<"a", "b">>))

(***************************************************************************)
(* C16: numbers                                                            *)
(***************************************************************************)
IsDigits(text) == text # <<>> /\ \A k \in DOMAIN text : text[k] \in Digits

\* a single 0, or a nonzero digit followed by digits
IsIntegerPart(text) == text = <<"0">> \/ (IsDigits(text) /\ text[1] # "0")

\* nothing, or '.' and one or more digits
IsFractionPart(text) == text = <<>> \/ (text[1] = "." /\ IsDigits(Tail(text)))

\* nothing, or e/E, an optional sign and one or more digits
IsExponentPart(text) ==
    \/ text = <<>>
    \/ /\ text[1] \in {"e", "E"}
       /\ \/ IsDigits(Tail(text))
          \/ Len(text) >= 2 /\ text[2] \in {"+", "-"} /\ IsDigits(SubSeq(text, 3, Len(text)))

\* the text splits into sign, integer part, fraction and exponent
IsNumberText(text) ==
    \E s \in {0, 1}, i, j \in 0..Len(text) :
        /\ s <= i /\ i <= j
        /\ s = 1 => text # <<>> /\ text[1] = "-"
        /\ IsIntegerPart(SubSeq(text, s + 1, i))
        /\ IsFractionPart(SubSeq(text, i + 1, j))
        /\ IsExponentPart(SubSeq(text, j + 1, Len(text)))

HasFractionOrExponent(text) == \E k \in DOMAIN text : text[k] \in {".", "e", "E"}

NumberErrors ==
    {"Invalid number, unexpected digit after 0", "Invalid number, expected digit but got"}

\* the last call met a '-' or a digit where its token had to start
NumberScanned ==
    /\ currentPosition < Len(body)
    /\ body[currentPosition + 1] \in {"-"} \cup Digits

\* C16: a scan that meets '-' or a digit returns a token whose text is a
\* number (optional '-', integer part, optional fraction, optional exponent),
\* FLOAT exactly with a fraction or an exponent and INT otherwise, or it raises
\* an 'Invalid number' error: 'unexpected digit after 0' at a digit that
\* follows the leading 0, or 'expected digit but got' naming the character (or
\* <EOF>) found at the place after '-', '.', the exponent marker or its sign
\* where a digit had to be.
C16_NumberScanning ==
    /\ token.kind \in {"INT", "FLOAT"} =>
          /\ IsNumberText(Spanned(token))
          /\ token.value = Value(Spanned(token))
          /\ token.kind = "FLOAT" <=> HasFractionOrExponent(Spanned(token))
    /\ token # NoToken /\ char_code_at(body, token.start) \in {"-"} \cup Digits =>
          token.kind \in {"INT", "FLOAT"}
    /\ lex_error # NoLexError /\ NumberScanned =>
          /\ lex_error.msg \in NumberErrors
          /\ lex_error.at > currentPosition
          /\ lex_error.what = <<char_code_at(body, lex_error.at)>>
    /\ lex_error.msg = "Invalid number, unexpected digit after 0" =>
          /\ NumberScanned
          /\ body[lex_error.at] = "0"
          /\ body[lex_error.at + 1] \in Digits
          /\ Slice(body, currentPosition, lex_error.at) \in {<<"0">>, <<"-", "0">>}
    /\ lex_error.msg = "Invalid number, expected digit but got" =>
          /\ NumberScanned
          /\ char_code_at(body, lex_error.at) \notin Digits
          /\ body[lex_error.at] \in {"-", ".", "e", "E", "+"}

\* 1.0e1 was returned as a FLOAT
C16_Witness ==
    /\ body = <<"1", ".", "0", "e", "1">>
    /\ token = Token("FLOAT", 0, 5, Value(body))

(***************************************************************************)
(* C17: unique fragment names                                              *)
(***************************************************************************)
\* the fragment definitions entered so far
VisitedFragments == {i \in 1..(docIdx - 1) : document[i].kind = "fragment"}

\* the first fragment definition of the document that has the name of the i-th
FirstNamed(i) ==
    CHOOSE j \in 1..i :
        /\ document[j] = document[i]
        /\ \A k \in 1..(j - 1) : document[k] # document[i]

\* the entered fragment definitions whose name an earlier one has
DuplicateFragments == {i \in VisitedFragments : FirstNamed(i) # i}

VisitedNames == {document[i].name : i \in VisitedFragments}

\* C17: the rule reports, and never raises: at every point of the walk there
\* is exactly one collected error per entered fragment definition whose name an
\* earlier fragment definition has (as many errors as fragment definitions
\* minus distinct names, none exactly when the names are unique), in the order
\* of the duplicates, each naming the name node of the first definition of
\* that name and the name node of the duplicate; the recorded first occurrence
\* of a name is never replaced; and the walk goes on to the next definition.
C17_DuplicatesCollected ==
    /\ Len(errors) = Cardinality(DuplicateFragments)
    /\ Len(errors) = Cardinality(VisitedFragments) - Cardinality(VisitedNames)
    /\ \A k \in DOMAIN errors :
          /\ errors[k].nodes[2] \in DuplicateFragments
          /\ errors[k].nodes[1] = NameNode(FirstNamed(errors[k].nodes[2]))
          /\ errors[k].name = document[errors[k].nodes[2]].name
          /\ \A l \in DOMAIN errors : l < k => errors[l].nodes[2] < errors[k].nodes[2]
    /\ DOMAIN known_fragment_names = VisitedNames
    /\ \A i \in VisitedFragments :
          known_fragment_names[document[i].name] = NameNode(FirstNamed(i))
    /\ docIdx <= Len(document) => ENABLED NextV

\* f, f, an operation, f: the walk is over and both duplicates of f were
\* reported against the first f
C17_Witness ==
    /\ document = <<FragmentDefinition("f"), FragmentDefinition("f"),
                    OperationDefinition, FragmentDefinition("f")>>
    /\ docIdx > Len(document)
    /\ errors = <<GraphQLError("f", <<NameNode(1), NameNode(2)>>),
                  GraphQLError("f", <<NameNode(1), NameNode(4)>>)>>

(***************************************************************************)
(* C18: possible types and the implementer index                           *)
(***************************************************************************)
\* the object types of the map that declare interface i, in the map's order
DeclaringObjects(i) ==
    SelectSeq(Values(typeMap),
              LAMBDA d : isinstance(d, {"Object"}) /\ i \in InterfacesOf(d))

\* C18: on a constructed map get_possible_types of a union is the union's
\* declared member list, and get_possible_types of an interface is the list of
\* the object types of the map that declare it, in the map's insertion order:
\* no other object type, none outside the map, and the empty list when the
\* map holds no implementer.
C18_PossibleTypes ==
    pc = "constructed" /\ ret.r = "list" =>
        IF isinstance(ret.a, {"Union"})
        THEN ret.l = Defs[ret.a].types
        ELSE ret.l = DeclaringObjects(ret.a)

\* L was discovered before A, and get_possible_types(I) lists them in that order
C18_Witness ==
    /\ pc = "constructed"
    /\ types = <<Named("L"), Named("Q")>>
    /\ ret = Call("I", "None", "list", <<"L", "A">>)

(***************************************************************************)
(* C19: the constructed map does not change                                *)
(***************************************************************************)
\* C19: once the map is constructed, no get_possible_types or is_possible_type
\* call, answered or failed, changes the name-to-type mapping or the
\* implementer index: no key appears, disappears or moves, and asking about an
\* interface without implementers leaves no empty list behind.  Only the
\* possible-type cache changes, and only by gaining an entry: a step adds at
\* most one entry, and an entry that exists keeps its name set for good.
C19_PostConstructionImmutable ==
    /\ [][pc = "constructed" =>
            /\ typeMap' = typeMap
            /\ implementations' = implementations
            /\ DOMAIN possible_type_map \subseteq DOMAIN possible_type_map'
            /\ \A n \in DOMAIN possible_type_map :
                  possible_type_map'[n] = possible_type_map[n]
            /\ Cardinality(DOMAIN possible_type_map')
                  <= Cardinality(DOMAIN possible_type_map) + 1]_vars
    /\ [](pc = "constructed" =>
            \A n \in DOMAIN implementations : implementations[n] # <<>>)
    /\ [](pc = "constructed" =>
            \A n \in DOMAIN possible_type_map : possible_type_map[n] # {})

\* J is in the map without implementers; after a cached answer for U,
\* get_possible_types(J) returned the empty list and the index has no key J
C19_Witness ==
    /\ pc = "constructed"
    /\ "J" \in Stored
    /\ ret = Call("J", "None", "list", <<>>)
    /\ "U" \in DOMAIN possible_type_map
    /\ "J" \notin DOMAIN implementations

(***************************************************************************)
(* C20: what the map stores                                                *)
(***************************************************************************)
\* every value of the ordered dict is a named type definition kept under its
\* own name
NamedUnderOwnName(m) ==
    \A i \in DOMAIN m : m[i].val \in DefIds /\ m[i].key = Defs[m[i].val].name

\* C20: whatever the roots are (null entries, wrappers of any depth), every
\* entry of the map, while it is built and afterwards, is a named type stored
\* under its own name, never a null and never a wrapper; null roots are skipped
\* without error (a list of nulls gives the empty map, and no error is about a
\* null); and a wrapped root contributes its innermost named type: the
\* constructed map holds exactly what is reachable from the named types inside
\* the roots.
C20_OnlyNamedTypesStored ==
    /\ NamedUnderOwnName(map_)
    /\ NamedUnderOwnName(typeMap)
    /\ pc = "failed" => err.type \in DefIds
    /\ (\A k \in DOMAIN types : types[k] = NoType) =>
          /\ pc # "failed"
          /\ map_ = <<>>
          /\ typeMap = <<>>
    /\ pc = "constructed" =>
          /\ \A k \in DOMAIN types : types[k].d # "None" => types[k].d \in Stored
          /\ Stored = Reachable(types)

\* a null root and a doubly wrapped Q: the map is constructed and holds Q
C20_Witness ==
    /\ pc = "constructed"
    /\ types = <<NoType, GraphQLNonNull(GraphQLList(Named("Q")))>>
    /\ "Q" \in Stored
    /\ "None" \notin Stored

(***************************************************************************)
(* C21: the cursor                                                         *)
(***************************************************************************)
\* a line break starts at offset q: a CR, or an LF that no CR precedes
BreakStartsAt(b, q) ==
    \/ b[q + 1] = CR
    \/ b[q + 1] = LF /\ (q = 0 \/ b[q] # CR)

BreaksBefore(b, position) == {q \in 0..(position - 1) : BreakStartsAt(b, q)}

\* the offset at which the line of position begins
LineStart(b, position) ==
    IF BreaksBefore(b, position) = {} THEN 0
    ELSE LET q == CHOOSE x \in BreaksBefore(b, position) :
                      \A y \in BreaksBefore(b, position) : y <= x
         IN  IF b[q + 1] = CR /\ char_code_at(b, q + 1) = LF /\ q + 2 <= position
             THEN q + 2 ELSE q + 1

\* the first offset at or after from that the skip phase does not consume
FirstUnskipped(b, from) ==
    CHOOSE s \in from..Len(b) :
        /\ \A p \in from..(s - 1) : Skipped(b, from, p)
        /\ s < Len(b) => ~ Skipped(b, from, s)

\* C21: the cursor is the end of the token returned last (0 before the first),
\* and each call scans from there with nothing read ahead: the token it
\* returns starts at the first character after the skipped run, so the tokens
\* in front of an unscannable position are returned by the earlier calls; the
\* error is raised by the call whose scan, begun at the cursor, meets that
\* position, it leaves the last token and the cursor as they were, and its
\* 1-based line and column are those of its offset in the whole source.
C21_CursorResumption ==
    /\ [](currentPosition = IF token = NoToken THEN 0 ELSE token.end)
    /\ [](token # NoToken => token.start = FirstUnskipped(body, ScanStart))
    /\ [](lex_error # NoLexError =>
            /\ FirstUnskipped(body, currentPosition) < Len(body)
            /\ lex_error.at >= FirstUnskipped(body, currentPosition)
            /\ lex_error.at <= Len(body)
            /\ lex_error.line = 1 + Cardinality(BreaksBefore(body, lex_error.at))
            /\ lex_error.column = lex_error.at - LineStart(body, lex_error.at) + 1)
    /\ [][lex_error' # NoLexError =>
            token' = token /\ currentPosition' = currentPosition]_vars

\* a-b: the first call returned the name a at [0,1), the second raised the
\* number error about b at line 1, column 3
C21_Witness ==
    /\ body = <<"a", "-", "b">>
    /\ token = Token("NAME", 0, 1, Value(<<"a">>))
    /\ lex_error.msg = "Invalid number, expected digit but got"
    /\ lex_error.what = <<"b">>
    /\ lex_error.line = 1
    /\ lex_error.column = 3

====
